---- MODULE Spec2Model ----
(***************************************************************************)
(* fssh: the SSH agent (secureAgent), its OTP authentication provider      *)
(* (two TTL-scoped caches behind one mutex), the encrypted key store and   *)
(* the command-line operations that change the store and the vault.        *)
(*                                                                         *)
(* Each connection is served by its own goroutine (server.go 86-97); a     *)
(* goroutine's position in the code is pc[t].  A step of the model is one  *)
(* critical section, one blocking prompt being answered, or one store      *)
(* scan.  Acquiring the mutex is a step of its own, so that "the lock is   *)
(* held at this statement" is a property of states.                        *)
(***************************************************************************)
EXTENDS Integers, Sequences, FiniteSets, TLC

\* ------------------------------------------------------------------ bounds
\* The clock runs from 0 to MaxTime (seconds).
MaxTime == 3
RecoveryCodeCount == 3                 \* recovery codes generated by one init

\* ------------------------------------------------------- sets of the model
Threads == {"c1", "c2"}                \* connection goroutines
Free == "free"                         \* the mutex is not held
AliasOrder == <<"a", "b">>             \* file names, in os.ReadDir order
Aliases == {AliasOrder[i] : i \in 1..Len(AliasOrder)}
Fingerprints == {"f1", "f2"}           \* key pairs a client may ask about
SeedTTLs == {0, 1, 3}                  \* config.SeedUnlockTTLSeconds
MasterKeyTTLs == {0, 2}                \* agent's unlock-ttl-seconds
Periods == {0, 30}                     \* config.Period as LoadConfig accepts it
Skews == {-2, -1, 0, 1, 2}             \* authenticator device counter - host counter
Password == "P"                        \* the password the seed was sealed with
Passwords == {"P", "bad"}              \* what the user may type
TheSeed == "S"                         \* the seed sealed in the config
NilBytes == "nil"                      \* a nil []byte
Zeroed == "zeroed"                     \* a slice whose bytes secureClear has overwritten
DevicePeriod == 30                     \* the authenticator's period
RandomKeys == {"r1", "r2", "r3"}       \* values rand.Reader may yield

\* time.Time{}: before every instant of the clock
ZeroTime == -1

NoRecord == [fp |-> "none", pubKey |-> "", encKey |-> NilBytes]

\* A goroutine's locals share no backing array with the cache.
NoAlias == [seed |-> FALSE, mk |-> FALSE]
NoInit == [mode |-> "-", force |-> FALSE, outcome |-> "none"]

VARIABLES
    config,           \* OTPProvider.config: SeedUnlockTTLSeconds, Period
    masterKeyTTL,     \* OTPProvider.masterKeyTTL
    mu,               \* OTPProvider.mu: Free or the goroutine holding it
    cachedSeed,       \* OTPProvider.cachedSeed
    seedExpiry,       \* OTPProvider.seedExpiry
    cachedMasterKey,  \* OTPProvider.cachedMasterKey
    masterKeyExpiry,  \* OTPProvider.masterKeyExpiry
    now,              \* time.Now(), seconds
    serverUp,         \* the agent process is running
    pc,               \* each goroutine's position
    req,              \* each goroutine's current request
    alias,            \* Sign's local alias
    seed,             \* UnlockMasterKey's local seed
    mk,               \* Sign's local mk / UnlockMasterKey's masterKey
    result,           \* what the request returned
    listed,           \* what List returned: a set of <<public key, alias>>
    prompts,          \* prompts shown so far by the current request
    calledUnlock,     \* the current request has called UnlockMasterKey
    changedCache,     \* the current request has changed a cache field's value
    aliased,          \* whether a goroutine's local seed / mk is the very slice the cache field holds
    seedAuth,         \* when the password last unlocked the seed (ZeroTime: never, or cleared since)
    mkAuth,           \* when an interactive unlock last derived the master key (ZeroTime: never, or cleared since)
    store,            \* the keys directory: alias -> record
    bootMetas,        \* the directory as read when the agent was constructed
    vault,            \* the Keychain item master_key_v1
    usedKeys,         \* random keys already drawn
    rk,               \* the rekey command: its position and locals
    rkBefore,         \* the store and the vault when the rekey command started
    keyring,          \* the convenience agent's keyring: the records decrypted at startup
    wire,             \* the last wire request and what each agent variant answered
    recoveryHashes,   \* config.RecoveryCodesHash
    shownCodes,       \* the recovery codes init displayed, in the order generated
    rcv,              \* the last VerifyRecoveryCode call: its code and its two results
    spent,            \* the recovery codes that have verified successfully
    totp,             \* the last otp.Verify call: its inputs and its result
    touch,            \* the Touch ID provider's calls: presence checks, vault reads, last result
    imp,              \* the last import command: its alias, its key, the key found under the alias, its outcome
    boot,             \* StartWithOptions: where the agent's startup stands, and when preUnlockOTP succeeded
    sig,              \* the last SignWithFlags that reached its signer: key type, flags, algorithm or error
    otpSeed,          \* the seed sealed in the OTP config file (NilBytes: no config file)
    authMode,         \* auth_mode.json: "touchid", "otp", or "none" when the file is absent
    ini               \* the last init command: its mode, its --force flag, its outcome

provVars == <<config, masterKeyTTL, mu, cachedSeed, seedExpiry, cachedMasterKey, masterKeyExpiry>>
connVars == <<pc, req, alias, seed, mk, result, listed, prompts, calledUnlock, changedCache, aliased>>
histVars == <<seedAuth, mkAuth>>
diskVars == <<store, bootMetas, vault, usedKeys>>
cliVars == <<rk, rkBefore>>
extVars == <<keyring, wire, recoveryHashes, shownCodes, rcv, spent, totp, touch>>
machineVars == <<otpSeed, authMode, ini>>
setupVars == <<imp, boot, sig, machineVars>>
vars == <<provVars, connVars, histVars, diskVars, cliVars, extVars, setupVars, now, serverUp>>

\* ------------------------------------------------------- pure functions

\* crypt.HKDF(seed, masterKeySalt, "fssh-master-key-v1", 32): deterministic
\* in the seed (salt and label are fixed for the life of the config).
HKDF(s) == IF s = NilBytes THEN "hkdf(nil)" ELSE "hkdf(" \o s \o ")"

\* crypt.DecryptAEAD of config.EncryptedSeed under PBKDF2(password, salt):
\* opens only under the key derived from the sealing password.
DecryptSeed(password) == IF password = Password THEN TheSeed ELSE NilBytes

\* otp.Generate: the code for a seed and a counter (an injective abstraction
\* of HOTP).
Generate(s, counter) == <<s, counter>>

Verify_TwoSteps(s, userCode, period) ==
    LET counter == now \div period
    IN \E offset \in -2..2 : userCode = Generate(s, counter + offset)

\* otp.Verify: counter = now / period, accept Generate at counter-1..counter+1.
Verify(s, userCode, period) ==
    LET counter == now \div period
    IN \E offset \in -1..1 : userCode = Generate(s, counter + offset)

\* The code the user's authenticator shows: its counter is skewed by d.
DeviceCode(d) == Generate(TheSeed, (now \div DevicePeriod) + d)

loadMetas_AtBoot == bootMetas

\* secureAgent.loadMetas: the records of the directory, in ReadDir order,
\* read afresh on every call.
loadMetas == store

\* secureAgent.List: one entry per record with a usable public key.
ListKeys(metas) ==
    {<<metas[a].pubKey, a>> : a \in {x \in Aliases : metas[x] # NoRecord /\ metas[x].pubKey # ""}}

\* The alias loop of Sign / SignWithFlags: the first record, in directory
\* order, whose fingerprint is fp; "" when there is none.
RECURSIVE LookupFrom(_, _, _)
LookupFrom(metas, fp, i) ==
    IF i > Len(AliasOrder) THEN ""
    ELSE IF metas[AliasOrder[i]] # NoRecord /\ metas[AliasOrder[i]].fp = fp
         THEN AliasOrder[i]
         ELSE LookupFrom(metas, fp, i + 1)

LookupAlias_FirstRecord(metas, fp) ==
    IF \E a \in Aliases : metas[a] # NoRecord
    THEN AliasOrder[CHOOSE i \in 1..Len(AliasOrder) :
             /\ metas[AliasOrder[i]] # NoRecord
             /\ \A j \in 1..(i - 1) : metas[AliasOrder[j]] = NoRecord]
    ELSE ""

LookupAlias(metas, fp) == LookupFrom(metas, fp, 1)

\* store.LoadDecryptedRecord(alias, mk): the record's file must exist and
\* its ciphertext must open under the key derived from mk.
LoadDecryptedRecord(a, key) ==
    IF store[a] = NoRecord THEN "not found"
    ELSE IF store[a].encKey = key /\ key # NilBytes THEN "ok" ELSE "decrypt failed"

MasterKeyCacheValid_WithSeed ==
    masterKeyTTL > 0 /\ now < masterKeyExpiry /\ now < seedExpiry

\* UnlockMasterKey line 126.
MasterKeyCacheValid == masterKeyTTL > 0 /\ now < masterKeyExpiry

SeedCacheValid_UntilExpiry == now <= seedExpiry

SeedCacheValid_Inclusive == config.SeedUnlockTTLSeconds > 0 /\ now <= seedExpiry

\* unlockSeed line 58.
SeedCacheValid == config.SeedUnlockTTLSeconds > 0 /\ now < seedExpiry

\* unlockSeed lines 104-113: the expiry written with the seed.
NewSeedExpiry ==
    IF config.SeedUnlockTTLSeconds > 0 THEN now + config.SeedUnlockTTLSeconds ELSE now

NewMasterKeyExpiry_NoTTL == now

NewMasterKeyExpiry_Late == now + masterKeyTTL + 1

\* UnlockMasterKey line 172.
NewMasterKeyExpiry == now + masterKeyTTL

cacheFields == <<cachedSeed, seedExpiry, cachedMasterKey, masterKeyExpiry>>

\* The positions whose statements read or write a cache field: lines 126-127
\* (umk_check), 130 (umk_hitlog), 58-62 (us_check), 103-111 (pw_prompt),
\* 170-176 (mk_write), 200-213 (cc_clear).
CacheAccessPcs == {"umk_check", "umk_hitlog", "us_check", "pw_prompt", "mk_write", "cc_clear"}

\* The positions at which the goroutine is blocked on the user: lines 69, 145.
PromptPcs == {"pw_prompt", "code_prompt"}

\* ------------------------------------------------------------------ Init

EmptyStore == [a \in Aliases |-> NoRecord]
Record(fp, key) == [fp |-> fp, pubKey |-> "pub-" \o fp, encKey |-> key]

\* The machine after "fssh init --mode otp" and some imports: the vault
\* holds the key derived from the seed (otp_init.go 52-58).
InitDisk ==
    /\ vault = HKDF(TheSeed)
    /\ otpSeed = TheSeed
    /\ authMode = "otp"
    /\ ini = NoInit
    /\ store \in {EmptyStore, [EmptyStore EXCEPT !["a"] = Record("f1", HKDF(TheSeed))]}
    /\ bootMetas = store
    /\ usedKeys = {}

InitCli ==
    /\ rk = [pc |-> "idle", i |-> 1, old |-> NilBytes, new |-> NilBytes, entries |-> {}]
    /\ rkBefore = <<store, vault>>

\* The zero values of the provider's other fields; no request is being
\* served.
InitFields ==
    /\ mu = Free
    /\ cachedSeed = NilBytes
    /\ seedExpiry = ZeroTime
    /\ cachedMasterKey = NilBytes
    /\ masterKeyExpiry = ZeroTime
    /\ now = 0
    /\ pc = [t \in Threads |-> "idle"]
    /\ req = [t \in Threads |-> [op |-> "none", fp |-> "-"]]
    /\ alias = [t \in Threads |-> ""]
    /\ seed = [t \in Threads |-> NilBytes]
    /\ mk = [t \in Threads |-> NilBytes]
    /\ result = [t \in Threads |-> "none"]
    /\ listed = [t \in Threads |-> {}]
    /\ prompts = [t \in Threads |-> {}]
    /\ calledUnlock = [t \in Threads |-> FALSE]
    /\ changedCache = [t \in Threads |-> FALSE]
    /\ aliased = [t \in Threads |-> NoAlias]
    /\ seedAuth = ZeroTime
    /\ mkAuth = ZeroTime

InitIdle == InitFields /\ serverUp = TRUE

\* NewOTPProvider and newSecureAgentWithTTL have run; nothing is cached.
\* The provider holds the config file as otp.LoadConfig read it when the
\* agent was constructed: LoadConfig checks the version and the three seed
\* fields only, so a file whose "period" is absent or 0 is loaded as it is.
\* (preUnlockOTP reads the file on its own, earlier, into a provider it
\* then drops.)
InitAgent ==
    /\ config \in [SeedUnlockTTLSeconds : SeedTTLs, Period : Periods]
    /\ masterKeyTTL \in MasterKeyTTLs
    /\ InitIdle

\* StartWithOptions lines 66-83 (convenience mode): every record of the
\* directory that opens under mk is added to the keyring; the others are
\* skipped.
Preload(key) ==
    [a \in Aliases |-> IF LoadDecryptedRecord(a, key) = "ok" THEN store[a] ELSE NoRecord]

NoAnswer == <<"none", {}>>
NoWire == [op |-> "none", fp |-> "-", secure |-> NoAnswer, preload |-> NoAnswer]

\* The convenience agent has started with the master key unlocked; no
\* request has been sent.
InitWire ==
    /\ keyring = Preload(HKDF(TheSeed))
    /\ wire = NoWire

\* sha256 + hex of a recovery code (injective on the codes of the model).
Sha256Hex(code) == "sha256(" \o code \o ")"

\* otp.HashRecoveryCodes
HashRecoveryCodes(codes) == [i \in 1..Len(codes) |-> Sha256Hex(codes[i])]

\* otp.Initialize lines 79-86, 100: the config holds the hashes of the
\* generated codes; no code has been tried.
InitRecovery(codes) ==
    /\ recoveryHashes = HashRecoveryCodes(codes)
    /\ shownCodes = codes
    /\ rcv = [code |-> "-", ok |-> FALSE, index |-> -1]
    /\ spent = {}

\* otp.Verify has not been called.
InitTotp ==
    totp = [period |-> DevicePeriod, at |-> 0, code |-> <<NilBytes, 0>>, accepted |-> FALSE]

\* NewTouchIDProvider: the provider has no field.
InitTouch ==
    touch = [op |-> "none", checks |-> 0, reads |-> 0, presence |-> 0,
             result |-> "none", key |-> NilBytes]

\* No fssh command has been run since.
NoSignature == [fp |-> "-", keyType |-> "-", flags |-> {}, algo |-> "-"]
NoImport == [alias |-> "-", fp |-> "-", found |-> "none", outcome |-> "none"]

\* No fssh command has been run since; the agent got through its startup at
\* second 0.
InitSetup ==
    /\ imp = NoImport
    /\ boot = [state |-> "serving", at |-> 0]
    /\ sig = NoSignature

InitExt == InitWire /\ InitRecovery(<<"k1", "k2">>) /\ InitTotp /\ InitTouch /\ InitSetup

Init == InitAgent /\ InitDisk /\ InitCli /\ InitExt

\* ------------------------------------------------- a connection's request

\* A request arrives on connection t (xagent.ServeAgent dispatches it).
Begin(t, op, fp, at) ==
    /\ serverUp
    /\ pc[t] = "idle"
    /\ pc' = [pc EXCEPT ![t] = at]
    /\ req' = [req EXCEPT ![t] = [op |-> op, fp |-> fp]]
    /\ alias' = [alias EXCEPT ![t] = ""]
    /\ seed' = [seed EXCEPT ![t] = NilBytes]
    /\ mk' = [mk EXCEPT ![t] = NilBytes]
    /\ result' = [result EXCEPT ![t] = "pending"]
    /\ listed' = [listed EXCEPT ![t] = {}]
    /\ prompts' = [prompts EXCEPT ![t] = {}]
    /\ calledUnlock' = [calledUnlock EXCEPT ![t] = FALSE]
    /\ changedCache' = [changedCache EXCEPT ![t] = FALSE]
    /\ UNCHANGED <<provVars, histVars, diskVars, cliVars, extVars, now, serverUp, aliased,
                   setupVars>>

\* ClearCache is a method of the AuthProvider interface, called by whoever
\* holds the provider, from a goroutine of its own.
BeginList(t) == Begin(t, "list", "-", "list_scan")
BeginSign(t) == \E fp \in Fingerprints : Begin(t, "sign", fp, "sign_scan")
BeginClearCache(t) == Begin(t, "clear", "-", "cc_lock")

\* The request returns r to the client; its locals go out of scope.
Return(t, r) ==
    /\ pc' = [pc EXCEPT ![t] = "idle"]
    /\ result' = [result EXCEPT ![t] = r]
    /\ alias' = [alias EXCEPT ![t] = ""]
    /\ seed' = [seed EXCEPT ![t] = NilBytes]
    /\ mk' = [mk EXCEPT ![t] = NilBytes]
    /\ aliased' = [aliased EXCEPT ![t] = NoAlias]

List_ViaUnlock(t) ==
    /\ serverUp
    /\ pc[t] = "list_scan"
    /\ calledUnlock' = [calledUnlock EXCEPT ![t] = TRUE]
    /\ pc' = [pc EXCEPT ![t] = "umk_lock"]
    /\ alias' = [alias EXCEPT ![t] = AliasOrder[1]]
    /\ UNCHANGED <<provVars, histVars, diskVars, cliVars, extVars, now, serverUp,
                   req, seed, mk, result, listed, prompts, changedCache, aliased,
                   setupVars>>

\* secureAgent.List
List(t) ==
    /\ serverUp
    /\ pc[t] = "list_scan"
    /\ listed' = [listed EXCEPT ![t] = ListKeys(loadMetas)]
    /\ Return(t, "ok")
    /\ UNCHANGED <<provVars, histVars, diskVars, cliVars, extVars, now, serverUp,
                   req, prompts, calledUnlock, changedCache,
                   setupVars>>

\* secureAgent.Sign / SignWithFlags up to the call of UnlockMasterKey.
SignScan(t) ==
    /\ serverUp
    /\ pc[t] = "sign_scan"
    /\ LET found == LookupAlias(loadMetas, req[t].fp)
       IN IF found = ""
          THEN /\ Return(t, "key not found")
               /\ UNCHANGED calledUnlock
          ELSE /\ alias' = [alias EXCEPT ![t] = found]
               /\ calledUnlock' = [calledUnlock EXCEPT ![t] = TRUE]
               /\ pc' = [pc EXCEPT ![t] = "umk_lock"]
               /\ UNCHANGED <<result, seed, mk, aliased>>
    /\ UNCHANGED <<provVars, histVars, diskVars, cliVars, extVars, now, serverUp,
                   req, listed, prompts, changedCache,
                   setupVars>>

\* p.mu.Lock() blocks until the mutex is free.
Lock(t, at, next) ==
    /\ serverUp
    /\ pc[t] = at
    /\ mu = Free
    /\ mu' = t
    /\ pc' = [pc EXCEPT ![t] = next]
    /\ UNCHANGED <<config, masterKeyTTL, cachedSeed, seedExpiry, cachedMasterKey,
                   masterKeyExpiry, histVars, diskVars, cliVars, extVars, now, serverUp,
                   req, alias, seed, mk, result, listed, prompts, calledUnlock, changedCache,
                   aliased,
                   setupVars>>

\* UnlockMasterKey line 125
UmkLock(t) == Lock(t, "umk_lock", "umk_check")

\* UnlockMasterKey lines 126-134: the cache check, under the mutex.
UmkCheck(t) ==
    /\ serverUp
    /\ pc[t] = "umk_check"
    /\ mu = t
    /\ IF MasterKeyCacheValid
       THEN /\ mk' = [mk EXCEPT ![t] = cachedMasterKey]
            /\ aliased' = [aliased EXCEPT ![t].mk = TRUE]
            /\ pc' = [pc EXCEPT ![t] = "umk_hitlog"]
       ELSE /\ pc' = [pc EXCEPT ![t] = "us_lock"]
            /\ UNCHANGED <<mk, aliased>>
    /\ mu' = Free
    /\ UNCHANGED <<config, masterKeyTTL, cachedSeed, seedExpiry, cachedMasterKey,
                   masterKeyExpiry, histVars, diskVars, cliVars, extVars, now, serverUp,
                   req, alias, seed, result, listed, prompts, calledUnlock, changedCache,
                   setupVars>>

\* UnlockMasterKey lines 129-132: the mutex was released on line 128; the
\* log call's argument reads p.masterKeyExpiry; then mk is returned.
UmkHitLog(t) ==
    /\ serverUp
    /\ pc[t] = "umk_hitlog"
    /\ pc' = [pc EXCEPT ![t] = "sign_load"]
    /\ UNCHANGED <<provVars, histVars, diskVars, cliVars, extVars, now, serverUp,
                   req, alias, seed, mk, result, listed, prompts, calledUnlock, changedCache,
                   aliased,
                   setupVars>>

\* unlockSeed line 53
UsLock(t) == Lock(t, "us_lock", "us_check")

\* unlockSeed lines 56-69: a hit returns the cached seed (the deferred
\* Unlock runs) and UnlockMasterKey goes on to prompt for the code; a miss
\* prompts for the password with the mutex still held.
UsCheck(t) ==
    /\ serverUp
    /\ pc[t] = "us_check"
    /\ mu = t
    /\ IF SeedCacheValid
       THEN /\ seed' = [seed EXCEPT ![t] = cachedSeed]
            /\ aliased' = [aliased EXCEPT ![t].seed = TRUE]
            /\ mu' = Free
            /\ pc' = [pc EXCEPT ![t] = "code_prompt"]
            /\ prompts' = [prompts EXCEPT ![t] = @ \cup {"code"}]
       ELSE /\ pc' = [pc EXCEPT ![t] = "pw_prompt"]
            /\ prompts' = [prompts EXCEPT ![t] = @ \cup {"password"}]
            /\ UNCHANGED <<seed, mu, aliased>>
    /\ UNCHANGED <<config, masterKeyTTL, cachedSeed, seedExpiry, cachedMasterKey,
                   masterKeyExpiry, histVars, diskVars, cliVars, extVars, now, serverUp,
                   req, alias, mk, result, listed, calledUnlock, changedCache,
                   setupVars>>

\* unlockSeed lines 69-115: the user answers the password prompt.
PasswordEntered(t) ==
    /\ serverUp
    /\ pc[t] = "pw_prompt"
    /\ mu = t
    /\ \E password \in Passwords :
         LET opened == DecryptSeed(password)
         IN IF opened = NilBytes
            THEN /\ Return(t, "wrong password or damaged config")
                 /\ UNCHANGED <<cachedSeed, seedExpiry, prompts, changedCache, seedAuth>>
            ELSE /\ cachedSeed' = opened
                 /\ seedExpiry' = NewSeedExpiry
                 /\ seed' = [seed EXCEPT ![t] = opened]
                 /\ aliased' = [u \in Threads |-> [aliased[u] EXCEPT !.seed = (u = t)]]
                 /\ seedAuth' = now
                 /\ changedCache' = [changedCache EXCEPT ![t] =
                        @ \/ <<cachedSeed, seedExpiry>> # <<opened, NewSeedExpiry>>]
                 /\ pc' = [pc EXCEPT ![t] = "code_prompt"]
                 /\ prompts' = [prompts EXCEPT ![t] = @ \cup {"code"}]
                 /\ UNCHANGED <<result, alias, mk>>
    /\ mu' = Free
    /\ UNCHANGED <<config, masterKeyTTL, cachedMasterKey, masterKeyExpiry, mkAuth,
                   diskVars, cliVars, extVars, now, serverUp,
                   req, listed, calledUnlock,
                   setupVars>>

\* unlockSeed lines 69-72: reading the password fails (stdin closed).
PasswordReadFails(t) ==
    /\ serverUp
    /\ pc[t] = "pw_prompt"
    /\ mu = t
    /\ Return(t, "read password failed")
    /\ mu' = Free
    /\ UNCHANGED <<config, masterKeyTTL, cachedSeed, seedExpiry, cachedMasterKey,
                   masterKeyExpiry, histVars, diskVars, cliVars, extVars, now, serverUp,
                   req, listed, prompts, calledUnlock, changedCache,
                   setupVars>>

\* UnlockMasterKey lines 145-148: otp.PromptCode rejects what is not 6 or 8 digits.
CodeMalformed(t) ==
    /\ serverUp
    /\ pc[t] = "code_prompt"
    /\ Return(t, "read code failed")
    /\ UNCHANGED <<provVars, histVars, diskVars, cliVars, extVars, now, serverUp,
                   req, listed, prompts, calledUnlock, changedCache,
                   setupVars>>

\* UnlockMasterKey lines 145-155: the user types the code the device shows.
\* otp.Verify divides by config.Period: with Period = 0 the goroutine
\* panics, which ends the process.
CodeEntered(t) ==
    /\ serverUp
    /\ pc[t] = "code_prompt"
    /\ \E d \in Skews :
         IF config.Period = 0
         THEN /\ serverUp' = FALSE
              /\ UNCHANGED <<pc, result, alias, seed, mk, aliased>>
         ELSE /\ UNCHANGED serverUp
              /\ IF Verify(seed[t], DeviceCode(d), config.Period)
                 THEN /\ pc' = [pc EXCEPT ![t] = "derive"]
                      /\ UNCHANGED <<result, alias, seed, mk, aliased>>
                 ELSE Return(t, "code wrong or expired")
    /\ UNCHANGED <<provVars, histVars, diskVars, cliVars, extVars, now,
                   req, listed, prompts, calledUnlock, changedCache,
                   setupVars>>

\* UnlockMasterKey lines 157-166: the master key is derived from the local
\* seed, which is the slice unlockSeed returned; no lock is held.
DeriveMasterKey(t) ==
    /\ serverUp
    /\ pc[t] = "derive"
    /\ mk' = [mk EXCEPT ![t] = HKDF(seed[t])]
    /\ pc' = [pc EXCEPT ![t] = "mk_lock"]
    /\ UNCHANGED <<provVars, histVars, diskVars, cliVars, extVars, now, serverUp,
                   req, alias, seed, result, listed, prompts, calledUnlock, changedCache,
                   aliased,
                   setupVars>>

\* UnlockMasterKey line 169
MkLock(t) == Lock(t, "mk_lock", "mk_write")

\* UnlockMasterKey lines 170-180: the final cache write, under the mutex.
MkWrite(t) ==
    /\ serverUp
    /\ pc[t] = "mk_write"
    /\ mu = t
    /\ IF masterKeyTTL > 0
       THEN /\ cachedMasterKey' = mk[t]
            /\ aliased' = [u \in Threads |-> [aliased[u] EXCEPT !.mk = (u = t)]]
            /\ masterKeyExpiry' = NewMasterKeyExpiry
            /\ changedCache' = [changedCache EXCEPT ![t] =
                   @ \/ <<cachedMasterKey, masterKeyExpiry>> # <<mk[t], NewMasterKeyExpiry>>]
       ELSE UNCHANGED <<cachedMasterKey, masterKeyExpiry, changedCache, aliased>>
    /\ mkAuth' = now
    /\ mu' = Free
    /\ pc' = [pc EXCEPT ![t] = "sign_load"]
    /\ UNCHANGED <<config, masterKeyTTL, cachedSeed, seedExpiry, seedAuth,
                   diskVars, cliVars, extVars, now, serverUp,
                   req, alias, seed, mk, result, listed, prompts, calledUnlock,
                   setupVars>>

\* Sign lines 123-141: decrypt the record and sign.
SignLoad(t) ==
    /\ serverUp
    /\ pc[t] = "sign_load"
    /\ LET r == LoadDecryptedRecord(alias[t], mk[t])
       IN Return(t, IF r = "ok" THEN "signed" ELSE r)
    /\ UNCHANGED <<provVars, histVars, diskVars, cliVars, extVars, now, serverUp,
                   req, listed, prompts, calledUnlock, changedCache,
                   setupVars>>

\* ClearCache line 196
CcLock(t) == Lock(t, "cc_lock", "cc_clear")

secureClear_Noop(locals, field) == locals

\* secureClear(data): the bytes of the slice are overwritten in place, so
\* every goroutine whose local is that same slice now holds the zeroes.
secureClear(locals, field) ==
    [u \in Threads |-> IF aliased[u][field] THEN Zeroed ELSE locals[u]]

\* ClearCache lines 199-216
CcClear(t) ==
    /\ serverUp
    /\ pc[t] = "cc_clear"
    /\ mu = t
    /\ seed' = secureClear(seed, "seed")
    /\ mk' = secureClear(mk, "mk")
    /\ aliased' = [u \in Threads |-> NoAlias]
    /\ cachedSeed' = NilBytes
    /\ cachedMasterKey' = NilBytes
    /\ seedExpiry' = ZeroTime
    /\ masterKeyExpiry' = ZeroTime
    /\ seedAuth' = ZeroTime
    /\ mkAuth' = ZeroTime
    /\ changedCache' = [changedCache EXCEPT ![t] =
           @ \/ cacheFields # <<NilBytes, ZeroTime, NilBytes, ZeroTime>>]
    /\ mu' = Free
    /\ pc' = [pc EXCEPT ![t] = "idle"]
    /\ result' = [result EXCEPT ![t] = "ok"]
    /\ UNCHANGED <<config, masterKeyTTL, diskVars, cliVars, extVars, now, serverUp,
                   req, alias, listed, prompts, calledUnlock,
                   setupVars>>

\* A second passes.
Tick ==
    /\ serverUp
    /\ now < MaxTime
    /\ now' = now + 1
    /\ UNCHANGED <<provVars, connVars, histVars, diskVars, cliVars, extVars, serverUp,
                   setupVars>>

Serve(t) ==
    \/ BeginList(t) \/ BeginSign(t) \/ BeginClearCache(t)
    \/ List(t) \/ SignScan(t)
    \/ UmkLock(t) \/ UmkCheck(t) \/ UmkHitLog(t)
    \/ UsLock(t) \/ UsCheck(t) \/ PasswordEntered(t) \/ PasswordReadFails(t)
    \/ CodeMalformed(t) \/ CodeEntered(t) \/ DeriveMasterKey(t)
    \/ MkLock(t) \/ MkWrite(t) \/ SignLoad(t)
    \/ CcLock(t) \/ CcClear(t)

Next == (\E t \in Threads : Serve(t)) \/ Tick

Spec == Init /\ [][Next]_vars

\* --------------------------------------------- the command-line operations
\* Each fssh command is a process of its own, run from a terminal while the
\* agent may be serving.  The user runs one command at a time.

\* keychain.LoadMasterKey, once the presence check has passed: the vault's
\* item, or an error when there is none.
LoadMasterKey == vault

\* store.SaveEncryptedRecord(rec, mk): seals the record under mk and writes
\* the alias's file; a different key under an existing alias is refused.
CanSave_Always(a, fp) == TRUE

CanSave(a, fp) == store[a] = NoRecord \/ store[a].fp = fp
SaveEncryptedRecord(a, fp, key) == [store EXCEPT ![a] = Record(fp, key)]

NoCommandRunning == rk.pc # "loop"

\* cmdImport
CmdImport ==
    /\ NoCommandRunning
    /\ LoadMasterKey # NilBytes
    /\ \E a \in Aliases, fp \in Fingerprints :
         IF CanSave(a, fp)
         THEN /\ store' = SaveEncryptedRecord(a, fp, LoadMasterKey)
              /\ imp' = [alias |-> a, fp |-> fp, found |-> store[a].fp, outcome |-> "imported"]
         ELSE /\ UNCHANGED store
              /\ imp' = [alias |-> a, fp |-> fp, found |-> store[a].fp, outcome |-> "rejected"]
    /\ UNCHANGED <<provVars, connVars, histVars, bootMetas, vault, usedKeys,
                   cliVars, extVars, boot, sig, machineVars, now, serverUp>>

\* cmdRemove
CmdRemove ==
    /\ NoCommandRunning
    /\ LoadMasterKey # NilBytes
    /\ \E a \in Aliases :
         /\ store[a] # NoRecord
         /\ store' = [store EXCEPT ![a] = NoRecord]
    /\ UNCHANGED <<provVars, connVars, histVars, bootMetas, vault, usedKeys,
                   cliVars, extVars, now, serverUp,
                   setupVars>>

\* keychain.MasterKeyExists
MasterKeyExists == vault # NilBytes

\* keychain.StoreMasterKey(key, overwrite): the vault's item afterwards.
StoreMasterKey(key, overwrite) ==
    IF MasterKeyExists /\ ~overwrite THEN vault ELSE key

\* initTouchIDMode(force): with a key in the vault and no --force it prints
\* "master key already exists" and returns; otherwise it draws a key,
\* stores it and saves the mode.
CmdInitTouchID ==
    /\ NoCommandRunning
    /\ \E force \in BOOLEAN :
         IF MasterKeyExists /\ ~force
         THEN /\ ini' = [mode |-> "touchid", force |-> force, outcome |-> "exists"]
              /\ UNCHANGED <<vault, usedKeys, authMode>>
         ELSE \E key \in RandomKeys \ usedKeys :
                /\ vault' = StoreMasterKey(key, force)
                /\ usedKeys' = usedKeys \cup {key}
                /\ authMode' = "touchid"
                /\ ini' = [mode |-> "touchid", force |-> force, outcome |-> "done"]
    /\ UNCHANGED <<provVars, connVars, histVars, store, bootMetas,
                   cliVars, extVars, imp, boot, sig, otpSeed, now, serverUp>>

ConfigExists_Never == FALSE

\* otp.ConfigExists: the config file is there.
ConfigExists == otpSeed # NilBytes

\* What rand.Reader yields in one run of otp.Initialize: the seed, and the
\* recovery codes GenerateRecoveryCodes makes.
RandomSeeds == {"s1", "s2"}
GeneratedCodes(s) ==
    [i \in 1..RecoveryCodeCount |-> IF s = "s1" THEN "k1" ELSE IF i = 1 THEN "k2" ELSE "k3"]

\* initOTPMode(force): with a config file and no --force it prints that the
\* config exists and returns; otherwise otp.Initialize writes a config with
\* a new seed and new recovery hashes, the master key derived from the seed
\* goes to keychain.StoreMasterKey(masterKey, force), and the mode is
\* saved.
CmdInitOTP ==
    /\ NoCommandRunning
    /\ \E force \in BOOLEAN :
         IF ConfigExists /\ ~force
         THEN /\ ini' = [mode |-> "otp", force |-> force, outcome |-> "exists"]
              /\ UNCHANGED <<vault, usedKeys, authMode, otpSeed, recoveryHashes, shownCodes>>
         ELSE \E s \in RandomSeeds \ usedKeys :
                /\ otpSeed' = s
                /\ recoveryHashes' = HashRecoveryCodes(GeneratedCodes(s))
                /\ shownCodes' = GeneratedCodes(s)
                /\ vault' = StoreMasterKey(HKDF(s), force)
                /\ usedKeys' = usedKeys \cup {s}
                /\ authMode' = "otp"
                /\ ini' = [mode |-> "otp", force |-> force, outcome |-> "done"]
    /\ UNCHANGED <<provVars, connVars, histVars, store, bootMetas, cliVars,
                   keyring, wire, rcv, spent, totp, touch, imp, boot, sig, now, serverUp>>

\* cmdRekey lines 250-256: load the old key, draw the new one, list the
\* directory.
RekeyStart ==
    /\ NoCommandRunning
    /\ LoadMasterKey # NilBytes
    /\ \E key \in RandomKeys \ usedKeys :
         /\ rk' = [pc |-> "loop", i |-> 1, old |-> LoadMasterKey, new |-> key,
                   entries |-> {a \in Aliases : store[a] # NoRecord}]
         /\ usedKeys' = usedKeys \cup {key}
    /\ rkBefore' = <<store, vault>>
    /\ UNCHANGED <<provVars, connVars, histVars, store, bootMetas, vault,
                   extVars, now, serverUp,
                   setupVars>>

\* cmdRekey lines 257-263: one turn of the loop over the entries.  A record
\* that does not open under the old key ends the command (fatal).
RekeyRecord ==
    /\ rk.pc = "loop"
    /\ rk.i <= Len(AliasOrder)
    /\ LET a == AliasOrder[rk.i]
       IN IF a \notin rk.entries
          THEN /\ rk' = [rk EXCEPT !.i = @ + 1]
               /\ UNCHANGED store
          ELSE IF LoadDecryptedRecord(a, rk.old) # "ok"
          THEN /\ rk' = [rk EXCEPT !.pc = "failed"]
               /\ UNCHANGED store
          ELSE /\ store' = SaveEncryptedRecord(a, store[a].fp, rk.new)
               /\ rk' = [rk EXCEPT !.i = @ + 1]
    /\ UNCHANGED <<provVars, connVars, histVars, bootMetas, vault, usedKeys,
                   rkBefore, extVars, now, serverUp,
                   setupVars>>

\* cmdRekey lines 264-265: the new key replaces the old one in the vault.
RekeyStore ==
    /\ rk.pc = "loop"
    /\ rk.i > Len(AliasOrder)
    /\ vault' = StoreMasterKey(rk.new, TRUE)
    /\ rk' = [rk EXCEPT !.pc = "done"]
    /\ UNCHANGED <<provVars, connVars, histVars, store, bootMetas, usedKeys,
                   rkBefore, extVars, now, serverUp,
                   setupVars>>

\* ------------------------------------- the agent while the store changes
\* One connection is served while import and remove commands run.
StoreConn == "c1"

NextStore == Serve(StoreConn) \/ Tick \/ CmdImport \/ CmdRemove

\* An OTP machine whose seed stays unlocked for 1 s and whose master key
\* stays unlocked for 2 s.
InitStore ==
    /\ Init
    /\ config = [SeedUnlockTTLSeconds |-> 1, Period |-> DevicePeriod]
    /\ masterKeyTTL = 2

SpecStore == InitStore /\ [][NextStore]_vars

\* ------------------------------------------ the commands, no agent running
\* A Touch ID machine before "fssh init": the vault is empty, no key is
\* imported.
InitCommands ==
    /\ InitAgent
    /\ config = [SeedUnlockTTLSeconds |-> 0, Period |-> DevicePeriod]
    /\ masterKeyTTL = 0
    /\ vault = NilBytes
    /\ otpSeed = NilBytes
    /\ authMode = "none"
    /\ ini = NoInit
    /\ store = EmptyStore
    /\ bootMetas = store
    /\ usedKeys = {}
    /\ InitCli
    /\ InitExt

NextCommands ==
    CmdInitTouchID \/ CmdImport \/ CmdRemove \/ RekeyStart \/ RekeyRecord \/ RekeyStore

SpecCommands == InitCommands /\ [][NextCommands]_vars

\* ------------------------------------------- providers told not to cache
\* The agent started with --unlock-ttl-seconds 0 or below, on a config whose
\* seed TTL is 0, below 0, or 1 s.
NoCacheTTLs == {-1, 0}
NoCacheSeedTTLs == {-1, 0, 1}

InitNoCache ==
    /\ config \in [SeedUnlockTTLSeconds : NoCacheSeedTTLs, Period : {DevicePeriod}]
    /\ masterKeyTTL \in NoCacheTTLs
    /\ InitIdle /\ InitDisk /\ InitCli /\ InitExt

\* A connection's steps: those of Serve but for the return of a cached
\* master key, which line 126 rules out when masterKeyTTL <= 0.
ServeNoCache(t) ==
    \/ BeginList(t) \/ BeginSign(t) \/ BeginClearCache(t)
    \/ List(t) \/ SignScan(t)
    \/ UmkLock(t) \/ UmkCheck(t)
    \/ UsLock(t) \/ UsCheck(t) \/ PasswordEntered(t) \/ PasswordReadFails(t)
    \/ CodeMalformed(t) \/ CodeEntered(t) \/ DeriveMasterKey(t)
    \/ MkLock(t) \/ MkWrite(t) \/ SignLoad(t)
    \/ CcLock(t) \/ CcClear(t)

NextNoCache == (\E t \in Threads : ServeNoCache(t)) \/ Tick

SpecNoCache == InitNoCache /\ [][NextNoCache]_vars

\* ------------------------------------- the wire operations, both variants
\* The same request is put to the secure agent (secureAgent, which reads
\* the directory on each request) and to the convenience agent (the keyring
\* filled at startup), while import and remove commands run.  Every
\* authentication succeeds: UnlockMasterKey yields the key derived from the
\* seed.

UnsupportedOps == {"add", "remove", "removeall", "lock", "unlock"}

\* secureAgent.Add, Remove, RemoveAll, Lock, Unlock: the error each returns
\* ("ok" for nil).
secureAgentOp(op) == IF op \in {"add", "remove"} THEN "unsupported" ELSE "ok"

\* secureAgent.Sign with a successful unlock: what the client gets.
secureAgentSign(fp) ==
    LET a == LookupAlias(loadMetas, fp)
    IN IF a = "" THEN "key not found"
       ELSE LET r == LoadDecryptedRecord(a, HKDF(TheSeed))
            IN IF r = "ok" THEN "signed" ELSE r

\* The keyring signs with a key it was given at startup.
keyringSign(fp) ==
    IF \E a \in Aliases : keyring[a] # NoRecord /\ keyring[a].fp = fp
    THEN "signed" ELSE "key not found"

WireList ==
    /\ wire' = [op |-> "list", fp |-> "-",
                secure |-> <<"ok", ListKeys(loadMetas)>>,
                preload |-> <<"ok", ListKeys(keyring)>>]
    /\ UNCHANGED <<provVars, connVars, histVars, diskVars, cliVars, keyring,
                   recoveryHashes, shownCodes, rcv, spent, totp, touch, now, serverUp,
                   setupVars>>

WireSign ==
    /\ \E fp \in Fingerprints :
         wire' = [op |-> "sign", fp |-> fp,
                  secure |-> <<secureAgentSign(fp), {}>>,
                  preload |-> <<keyringSign(fp), {}>>]
    /\ UNCHANGED <<provVars, connVars, histVars, diskVars, cliVars, keyring,
                   recoveryHashes, shownCodes, rcv, spent, totp, touch, now, serverUp,
                   setupVars>>

\* Add, Remove, RemoveAll, Lock, Unlock sent to the secure agent, which has
\* no state of its own to change.
WireOther ==
    /\ \E op \in UnsupportedOps :
         wire' = [op |-> op, fp |-> "-",
                  secure |-> <<secureAgentOp(op), {}>>,
                  preload |-> NoAnswer]
    /\ UNCHANGED <<provVars, connVars, histVars, diskVars, cliVars, keyring,
                   recoveryHashes, shownCodes, rcv, spent, totp, touch, now, serverUp,
                   setupVars>>

NextWire == WireList \/ WireSign \/ WireOther \/ CmdImport \/ CmdRemove

SpecWire == InitStore /\ [][NextWire]_vars

\* ---------------------------------------------------------- recovery codes
\* otp.Initialize draws the codes from rand.Reader (init.go 82), stores
\* their hashes in the config and shows the codes once.  RecoveryCodeCount
\* codes are generated; the generator may yield the same code twice.
RecoveryCodes == {"k1", "k2", "k3"}
TypedCodes == RecoveryCodes \cup {"k0"}     \* what may be handed to VerifyRecoveryCode

RECURSIVE VerifyFrom(_, _, _)
VerifyFrom(codeHash, hashes, i) ==
    IF i > Len(hashes) THEN <<FALSE, -1>>
    ELSE IF hashes[i] = codeHash THEN <<TRUE, i - 1>>
    ELSE VerifyFrom(codeHash, hashes, i + 1)

VerifyRecoveryCode_OneBased(code, hashes) ==
    LET r == VerifyFrom(Sha256Hex(code), hashes, 1)
    IN <<r[1], IF r[1] THEN r[2] + 1 ELSE -1>>

\* otp.VerifyRecoveryCode(code, hashes): whether the code's hash is in the
\* list, and the (0-based) index of its first occurrence.
VerifyRecoveryCode(code, hashes) == VerifyFrom(Sha256Hex(code), hashes, 1)

\* A call of otp.VerifyRecoveryCode with the hashes of the config.  The
\* function reads its arguments and returns; spent records the codes that
\* have verified.
RecoveryVerify ==
    /\ \E code \in TypedCodes :
         LET r == VerifyRecoveryCode(code, recoveryHashes)
         IN /\ rcv' = [code |-> code, ok |-> r[1], index |-> r[2]]
            /\ spent' = IF r[1] THEN spent \cup {code} ELSE spent
    /\ UNCHANGED <<provVars, connVars, histVars, diskVars, cliVars,
                   keyring, wire, recoveryHashes, shownCodes, totp, touch, now, serverUp,
                   setupVars>>

InitRecoveryCodes ==
    /\ config = [SeedUnlockTTLSeconds |-> 1, Period |-> DevicePeriod]
    /\ masterKeyTTL = 2
    /\ InitIdle /\ InitDisk /\ InitCli /\ InitWire /\ InitTotp /\ InitTouch /\ InitSetup
    /\ \E codes \in [1..RecoveryCodeCount -> RecoveryCodes] : InitRecovery(codes)

NextRecovery == RecoveryVerify

SpecRecovery == InitRecoveryCodes /\ [][NextRecovery]_vars

\* ------------------------------------------------------------- otp.Verify
\* otp.Verify called at any second with any positive period, on a code an
\* authenticator made for some counter from the configured seed or from
\* another one.
TotpPeriods == {1, 2, DevicePeriod}
TotpCounters == (0 - 2)..(MaxTime + 2)
TotpSeeds == {TheSeed, "T"}

TotpVerify ==
    /\ serverUp
    /\ \E period \in TotpPeriods, k \in TotpCounters, s \in TotpSeeds :
         LET userCode == Generate(s, k)
         IN totp' = [period |-> period, at |-> now, code |-> userCode,
                     accepted |-> Verify(TheSeed, userCode, period)]
    /\ UNCHANGED <<provVars, connVars, histVars, diskVars, cliVars,
                   keyring, wire, recoveryHashes, shownCodes, rcv, spent, touch, now, serverUp,
                   setupVars>>

NextTotp == TotpVerify \/ Tick

SpecTotp == InitStore /\ [][NextTotp]_vars

\* ------------------------------------------------------ Touch ID provider
\* TouchIDProvider has no field.  touch records what its calls did: the
\* last method called, how many presence checks and vault reads were made,
\* and what the last UnlockMasterKey got from the presence check and
\* returned.
MaxTouchCalls == 3
PresenceOutcomes == {1, 0, -1}     \* touchid_prompt: passed, failed, not available

TouchIDUnlock_Cached(r) ==
    IF r = 1
    THEN [op |-> "unlock", checks |-> touch.checks + 1, reads |-> touch.reads + 1,
          presence |-> r,
          result |-> IF LoadMasterKey = NilBytes THEN "master key not initialized" ELSE "ok",
          key |-> LoadMasterKey]
    ELSE [op |-> "unlock", checks |-> touch.checks + 1, reads |-> touch.reads,
          presence |-> r,
          result |-> IF touch.key # NilBytes THEN "ok"
                     ELSE IF r = -1 THEN "presence not available" ELSE "presence failed",
          key |-> touch.key]

\* TouchIDProvider.UnlockMasterKey = keychain.LoadMasterKey: RequireBiometry
\* first; only when it returns nil is the vault queried.
TouchIDUnlock(r) ==
    IF r = 1
    THEN [op |-> "unlock", checks |-> touch.checks + 1, reads |-> touch.reads + 1,
          presence |-> r,
          result |-> IF LoadMasterKey = NilBytes THEN "master key not initialized" ELSE "ok",
          key |-> LoadMasterKey]
    ELSE [op |-> "unlock", checks |-> touch.checks + 1, reads |-> touch.reads,
          presence |-> r,
          result |-> IF r = -1 THEN "presence not available" ELSE "presence failed",
          key |-> NilBytes]

TouchUnlockMasterKey ==
    /\ touch.checks < MaxTouchCalls
    /\ \E r \in PresenceOutcomes : touch' = TouchIDUnlock(r)
    /\ UNCHANGED <<provVars, connVars, histVars, diskVars, cliVars,
                   keyring, wire, recoveryHashes, shownCodes, rcv, spent, totp, now, serverUp,
                   setupVars>>

\* TouchIDProvider.ClearCache: the body is empty.
TouchClearCache ==
    /\ touch' = [touch EXCEPT !.op = "clear"]
    /\ UNCHANGED <<provVars, connVars, histVars, diskVars, cliVars,
                   keyring, wire, recoveryHashes, shownCodes, rcv, spent, totp, now, serverUp,
                   setupVars>>

NextTouchID == TouchUnlockMasterKey \/ TouchClearCache \/ CmdInitTouchID

SpecTouchID == InitCommands /\ [][NextTouchID]_vars


\* ------------------------------------------ secure agent, Touch ID machine
\* "fssh init" stored a random master key in the vault, a key was imported
\* under it, and "fssh agent --unlock-ttl-seconds 2" is serving.
\* GetAuthProvider(ttl) returns NewTouchIDProvider() for this mode and does
\* not hand it the TTL.
InitTouchAgent ==
    /\ config = [SeedUnlockTTLSeconds |-> 0, Period |-> DevicePeriod]
    /\ masterKeyTTL = 2
    /\ InitIdle
    /\ vault = "r1"
    /\ otpSeed = NilBytes
    /\ authMode = "touchid"
    /\ ini = NoInit
    /\ store = [EmptyStore EXCEPT !["a"] = Record("f1", "r1")]
    /\ bootMetas = store
    /\ usedKeys = {"r1"}
    /\ InitCli
    /\ InitExt

\* secureAgent.Sign with the Touch ID provider, from the scan of the store
\* to the answer.  The provider has no state, so the handler's steps do not
\* interleave with anything.  mkAuth is the time of the last successful
\* unlock.
TouchSign ==
    /\ serverUp
    /\ touch.checks < MaxTouchCalls
    /\ \E fp \in Fingerprints, r \in PresenceOutcomes :
         LET found == LookupAlias(loadMetas, fp)
             u == TouchIDUnlock(r)
             loaded == LoadDecryptedRecord(found, u.key)
         IN /\ req' = [req EXCEPT ![StoreConn] = [op |-> "sign", fp |-> fp]]
            /\ IF found = ""
               THEN /\ result' = [result EXCEPT ![StoreConn] = "key not found"]
                    /\ prompts' = [prompts EXCEPT ![StoreConn] = {}]
                    /\ UNCHANGED <<touch, mkAuth>>
               ELSE /\ touch' = u
                    /\ prompts' = [prompts EXCEPT ![StoreConn] = {"touchid"}]
                    /\ mkAuth' = IF u.result = "ok" THEN now ELSE mkAuth
                    /\ result' = [result EXCEPT ![StoreConn] =
                           IF u.result # "ok" THEN u.result
                           ELSE IF loaded = "ok" THEN "signed" ELSE loaded]
    /\ UNCHANGED <<provVars, pc, alias, seed, mk, listed, calledUnlock, changedCache,
                   aliased, seedAuth, diskVars, cliVars,
                   keyring, wire, recoveryHashes, shownCodes, rcv, spent, totp, now, serverUp,
                   setupVars>>

NextTouchAgent == TouchSign \/ Tick

SpecTouchAgent == InitTouchAgent /\ [][NextTouchAgent]_vars

\* --------------------------------------------------- startup in OTP mode
\* "fssh agent --unlock-ttl-seconds 2" on an OTP machine: StartWithOptions
\* has built its first provider and is about to call preUnlockOTP; the
\* socket is not open yet.
InitStartup ==
    /\ config \in [SeedUnlockTTLSeconds : SeedTTLs, Period : {DevicePeriod}]
    /\ masterKeyTTL = 2
    /\ InitFields
    /\ serverUp = FALSE
    /\ InitDisk /\ InitCli
    /\ InitWire /\ InitRecovery(<<"k1", "k2">>) /\ InitTotp /\ InitTouch
    /\ imp = NoImport
    /\ sig = NoSignature
    /\ boot = [state |-> "starting", at |-> ZeroTime]

\* preUnlockOTP (server.go 113-134) and the rest of StartWithOptions: a
\* provider made by NewOTPProvider(0) asks for the password and the code;
\* when both are right the function returns nil and that provider is
\* dropped; newSecureAgentWithTTL then calls GetAuthProvider again, which
\* builds the agent's provider with empty fields.  A failure ends the
\* process.
PreUnlockOTP ==
    /\ boot.state = "starting"
    /\ \E password \in Passwords, d \in Skews :
         LET s == DecryptSeed(password)
         IN IF s # NilBytes /\ Verify(s, DeviceCode(d), config.Period)
            THEN /\ boot' = [state |-> "serving", at |-> now]
                 /\ serverUp' = TRUE
            ELSE /\ boot' = [state |-> "failed", at |-> ZeroTime]
                 /\ UNCHANGED serverUp
    /\ UNCHANGED <<provVars, connVars, histVars, diskVars, cliVars, extVars, imp, sig,
                   machineVars, now>>

NextStartup == PreUnlockOTP \/ Serve(StoreConn) \/ Tick

SpecStartup == InitStartup /\ [][NextStartup]_vars

\* ------------------------------------------- SignWithFlags: the algorithm
\* The key pairs a user imports: f1 is an RSA key, f2 an Ed25519 key.
KeyType(fp) == IF fp = "f1" THEN "ssh-rsa" ELSE "ssh-ed25519"

\* xagent.SignatureFlagRsaSha256 (2) and SignatureFlagRsaSha512 (4), as the
\* set of bits that are on.
FlagRsaSha256 == 2
FlagRsaSha512 == 4
SignatureFlags == SUBSET {FlagRsaSha256, FlagRsaSha512}

\* ssh.AlgorithmSigner.SignWithAlgorithm of the signer ssh.NewSignerFromKey
\* returns: an RSA key signs with ssh-rsa, rsa-sha2-256 or rsa-sha2-512;
\* any other key signs with the algorithm of its own type only and returns
\* an error for any other name.
SignWithAlgorithm(keyType, algo) ==
    IF keyType = "ssh-rsa"
    THEN IF algo \in {"ssh-rsa", "rsa-sha2-256", "rsa-sha2-512"} THEN algo ELSE "error"
    ELSE IF algo = keyType THEN algo ELSE "error"

\* SignWithFlags lines 184-190: algo from the flags.
SelectAlgorithm(flags) ==
    IF FlagRsaSha512 \in flags THEN "rsa-sha2-512"
    ELSE IF FlagRsaSha256 \in flags THEN "rsa-sha2-256"
    ELSE ""

\* SignWithFlags lines 184-207: every signer of ssh.NewSignerFromKey is an
\* AlgorithmSigner; with a flag set the named algorithm is asked of it,
\* otherwise signer.Sign uses the key type's own algorithm.
SignatureAlgorithm(keyType, flags) ==
    IF SelectAlgorithm(flags) # ""
    THEN SignWithAlgorithm(keyType, SelectAlgorithm(flags))
    ELSE SignWithAlgorithm(keyType, keyType)

\* A SignWithFlags request for a stored key, once the master key is
\* unlocked and the record is open.
SignWithFlags ==
    /\ \E fp \in Fingerprints, flags \in SignatureFlags :
         /\ LookupAlias(loadMetas, fp) # ""
         /\ sig' = [fp |-> fp, keyType |-> KeyType(fp), flags |-> flags,
                    algo |-> SignatureAlgorithm(KeyType(fp), flags)]
    /\ UNCHANGED <<provVars, connVars, histVars, diskVars, cliVars, extVars,
                   imp, boot, machineVars, now, serverUp>>

NextSignFlags == SignWithFlags \/ CmdImport \/ CmdRemove

SpecSignFlags == InitStore /\ [][NextSignFlags]_vars

\* ------------------------------------------- the commands on a new machine
\* A machine on which fssh was never initialised: no vault item, no OTP
\* config, no auth_mode.json, no key.
InitMachine ==
    /\ config = [SeedUnlockTTLSeconds |-> 0, Period |-> DevicePeriod]
    /\ masterKeyTTL = 0
    /\ InitIdle
    /\ vault = NilBytes
    /\ otpSeed = NilBytes
    /\ authMode = "none"
    /\ ini = NoInit
    /\ store = EmptyStore
    /\ bootMetas = store
    /\ usedKeys = {}
    /\ InitCli
    /\ InitWire /\ InitRecovery(<<>>) /\ InitTotp /\ InitTouch /\ InitSetup

\* auth.LoadMode: the saved mode, or, when auth_mode.json is absent, Touch
\* ID if the vault holds a master key and OTP otherwise.
LoadMode ==
    IF authMode # "none" THEN authMode
    ELSE IF vault # NilBytes THEN "touchid" ELSE "otp"

\* The master key the provider GetAuthProvider selects returns from a
\* successful UnlockMasterKey: the vault's item for Touch ID, HKDF of the
\* config's seed for OTP.
ProviderKey == IF LoadMode = "touchid" THEN LoadMasterKey ELSE HKDF(otpSeed)

\* GetAuthProvider's IsAvailable checks.
ProviderAvailable ==
    IF LoadMode = "touchid" THEN vault # NilBytes ELSE otpSeed # NilBytes

NextMachine ==
    \/ CmdInitTouchID \/ CmdInitOTP \/ CmdImport
    \/ RekeyStart \/ RekeyRecord \/ RekeyStore

\* The same machine without the rekey command.
NextInit == CmdInitTouchID \/ CmdInitOTP \/ CmdImport

SpecInit == InitMachine /\ [][NextInit]_vars

SpecMachine == InitMachine /\ [][NextMachine]_vars

\* ------------------------------------------------------------ properties

Present(metas) == {a \in Aliases : metas[a] # NoRecord}
HasKey(metas, fp) == \E a \in Present(metas) : metas[a].fp = fp
Steps(t, at) == pc[t] = at /\ pc'[t] # at

\* C1: in OTP mode with master-key TTL > 0, a call of UnlockMasterKey whose
\* cache check reads the clock before t + TTL, t being when the last
\* interactive unlock succeeded (no ClearCache since), takes the cache-hit
\* path: it gets the master key that unlock cached, shows no prompt, and
\* the Sign that made it goes straight on to decrypt the record.
C1_InWindow == masterKeyTTL > 0 /\ mkAuth # ZeroTime /\ now < mkAuth + masterKeyTTL
C1_CacheHitWithinTTL ==
    [][\A t \in Threads :
         /\ (Steps(t, "umk_check") /\ C1_InWindow)
              => /\ pc'[t] = "umk_hitlog"
                 /\ mk'[t] = cachedMasterKey
                 /\ cachedMasterKey # NilBytes
                 /\ prompts'[t] = {}
         /\ Steps(t, "umk_hitlog")
              => /\ pc'[t] = "sign_load"
                 /\ mk'[t] = mk[t]
                 /\ prompts'[t] = {}]_vars

\* C1 witness: a Sign has been answered, with a signature, without a prompt.
C1_Witness ==
    \E t \in Threads :
        /\ pc[t] = "idle" /\ req[t].op = "sign" /\ result[t] = "signed"
        /\ prompts[t] = {} /\ calledUnlock[t]

\* C2: with seedCacheTTL = T > 0, an unlockSeed call whose cache check is
\* strictly within T seconds of the last successful password unlock returns
\* the seed with no password prompt; one at or after T seconds prompts for
\* the password; with T = 0 every call prompts for the password.
C2_SeedTTL ==
    [][\A t \in Threads : Steps(t, "us_check") =>
         LET T == config.SeedUnlockTTLSeconds
         IN /\ (T > 0 /\ seedAuth # ZeroTime /\ now < seedAuth + T)
                 => /\ pc'[t] = "code_prompt"
                    /\ seed'[t] = TheSeed
                    /\ "password" \notin prompts'[t]
            /\ (T > 0 /\ seedAuth # ZeroTime /\ now >= seedAuth + T)
                 => (pc'[t] = "pw_prompt" /\ "password" \in prompts'[t])
            /\ T = 0 => (pc'[t] = "pw_prompt" /\ "password" \in prompts'[t])]_vars

\* C2 witness: a call is at the code prompt having shown no password
\* prompt, the seed having been unlocked by an earlier call.
C2_Witness ==
    \E t \in Threads :
        /\ pc[t] = "code_prompt" /\ prompts[t] = {"code"}
        /\ seed[t] = TheSeed /\ seedAuth # ZeroTime

\* C3: an UnlockMasterKey whose TOTP code does not verify fails and has
\* changed no cache field (seed or master key, value or expiry).
C3_WrongCodeChangesNoCache ==
    \A t \in Threads :
        (pc[t] = "idle" /\ result[t] = "code wrong or expired") => ~changedCache[t]

C5_RekeyAllOrNothing ==
    [][(rk.pc = "loop" /\ rk'.pc = "failed")
         => (store' = rkBefore[1] /\ vault' = rkBefore[2])]_vars

\* C6: a goroutine blocked at the password prompt or at the code prompt
\* does not hold the provider's mutex.
C6_PromptsOutsideLock ==
    \A t \in Threads : pc[t] \in PromptPcs => mu # t

\* C7: a goroutine about to read or write a cache field holds the
\* provider's mutex.
C7_CacheAccessUnderLock ==
    \A t \in Threads : pc[t] \in CacheAccessPcs => mu = t

\* C8: a List request, in any state of the provider, returns the public
\* key and alias of every stored record, calls no UnlockMasterKey, shows no
\* prompt and leaves the provider as it was.
C8_ListNeedsNoUnlock ==
    [][\A t \in Threads : Steps(t, "list_scan") =>
         /\ pc'[t] = "idle"
         /\ result'[t] = "ok"
         /\ listed'[t] = {<<store[a].pubKey, a>> : a \in Present(store)}
         /\ ~calledUnlock'[t]
         /\ prompts'[t] = {}
         /\ provVars' = provVars]_vars

\* C8 witness: a List has returned keys while the master-key cache, once
\* filled, has expired.
C8_Witness ==
    \E t \in Threads :
        /\ pc[t] = "idle" /\ req[t].op = "list" /\ listed[t] # {}
        /\ cachedMasterKey # NilBytes /\ now >= masterKeyExpiry

\* C9: a Sign for a fingerprint that no record of the store has when the
\* request scans it fails with "key not found", having called no
\* UnlockMasterKey and shown no prompt.
C9_UnknownKeyFailsBeforeUnlock ==
    [][\A t \in Threads :
         (Steps(t, "sign_scan") /\ ~HasKey(store, req[t].fp))
           => /\ pc'[t] = "idle"
              /\ result'[t] = "key not found"
              /\ ~calledUnlock'[t]
              /\ prompts'[t] = {}]_vars

\* C9 witness: a key the agent had at start has been removed, and a Sign
\* for it has failed with "key not found".
C9_Witness ==
    \E t \in Threads :
        /\ pc[t] = "idle" /\ req[t].op = "sign" /\ result[t] = "key not found"
        /\ HasKey(bootMetas, req[t].fp) /\ ~calledUnlock[t]

\* C10: every request answers from the store as it is when the request
\* scans it, whatever the store was when the agent started: List returns
\* exactly the records present then; Sign goes on to unlock exactly when a
\* record with the fingerprint is present then, with that record's alias;
\* and a present record sealed under the unlocked master key is signed with.
C10_StoreChangesVisible ==
    [][\A t \in Threads :
         /\ Steps(t, "list_scan")
              => listed'[t] = {<<store[a].pubKey, a>> : a \in Present(store)}
         /\ Steps(t, "sign_scan")
              => /\ HasKey(store, req[t].fp)
                     => /\ pc'[t] = "umk_lock"
                        /\ alias'[t] \in Present(store)
                        /\ store[alias'[t]].fp = req[t].fp
                 /\ ~HasKey(store, req[t].fp)
                     => (pc'[t] = "idle" /\ result'[t] = "key not found")
         /\ (Steps(t, "sign_load") /\ alias[t] \in Present(store)
               /\ store[alias[t]].encKey = mk[t])
              => result'[t] = "signed"]_vars

\* C10 witness: a Sign has succeeded for a key imported after the agent
\* started.
C10_Witness ==
    \E t \in Threads :
        /\ pc[t] = "idle" /\ req[t].op = "sign" /\ result[t] = "signed"
        /\ ~HasKey(bootMetas, req[t].fp)

\* C11: Add, Remove, RemoveAll, Lock and Unlock each answer the client with
\* the error "unsupported", never with success.
C11_UnsupportedOpsRefused ==
    wire.op \in UnsupportedOps => wire.secure[1] = "unsupported"

\* C12: put the same List or Sign request, in the same state of the store,
\* and with every authentication succeeding, the secure agent and the
\* convenience agent return the same key listing and both succeed or both
\* fail.
C12_VariantsWireEquivalent ==
    /\ wire.op = "list" => wire.secure = wire.preload
    /\ wire.op = "sign" => ((wire.secure[1] = "signed") <=> (wire.preload[1] = "signed"))

\* C13: with master-key TTL <= 0 the cache check of UnlockMasterKey always
\* misses and every call that returns a key has prompted for a code and
\* verified it; with the seed TTL <= 0 as well, the seed check always
\* misses and every such call has prompted for the password too.
C13_NonPositiveTTLNeverCaches ==
    [][\A t \in Threads :
         LET T == config.SeedUnlockTTLSeconds
         IN masterKeyTTL <= 0 =>
              /\ Steps(t, "umk_check") => (pc'[t] = "us_lock" /\ mk'[t] = NilBytes)
              /\ (Steps(t, "us_check") /\ T <= 0)
                   => (pc'[t] = "pw_prompt" /\ "password" \in prompts'[t])
              /\ (pc[t] # "code_prompt" /\ pc'[t] = "code_prompt") => "code" \in prompts'[t]
              /\ (pc[t] # "sign_load" /\ pc'[t] = "sign_load")
                   => /\ pc[t] = "mk_write"
                      /\ "code" \in prompts[t]
                      /\ T <= 0 => "password" \in prompts[t]
              /\ Steps(t, "mk_write") => cachedMasterKey' = NilBytes]_vars

\* C13 witness: with both TTLs negative, two Sign requests have each been
\* answered with a signature after a password prompt and a code prompt.
C13_Witness ==
    /\ masterKeyTTL < 0 /\ config.SeedUnlockTTLSeconds < 0
    /\ \A t \in Threads :
         /\ pc[t] = "idle" /\ result[t] = "signed"
         /\ prompts[t] = {"password", "code"}

\* C14: the two tiers are independent.  A call that reaches the seed check
\* within the seed TTL of the last password unlock shows the code prompt
\* only; a call whose master-key check is within the master-key TTL of the
\* last unlock returns with no prompt although the seed has expired; a
\* check, a hit or a write on one tier leaves the other tier's value and
\* expiry as they were, and a hit leaves its own expiry as it was.
C14_TiersIndependent ==
    [][\A t \in Threads :
         LET T == config.SeedUnlockTTLSeconds
         IN /\ (Steps(t, "us_check") /\ T > 0 /\ seedAuth # ZeroTime /\ now < seedAuth + T)
                 => (pc'[t] = "code_prompt" /\ prompts'[t] = {"code"})
            /\ (Steps(t, "umk_check") /\ C1_InWindow /\ now >= seedExpiry)
                 => (pc'[t] = "umk_hitlog" /\ prompts'[t] = {})
            /\ (Steps(t, "umk_check") \/ Steps(t, "umk_hitlog") \/ Steps(t, "us_check"))
                 => cacheFields' = cacheFields
            /\ Steps(t, "pw_prompt")
                 => <<cachedMasterKey', masterKeyExpiry'>> = <<cachedMasterKey, masterKeyExpiry>>
            /\ Steps(t, "mk_write")
                 => <<cachedSeed', seedExpiry'>> = <<cachedSeed, seedExpiry>>]_vars

\* C14 witness: the master key, once cached, has expired, and a call is at
\* the code prompt having shown no password prompt.
C14_Witness ==
    \E t \in Threads :
        /\ pc[t] = "code_prompt" /\ prompts[t] = {"code"}
        /\ cachedMasterKey # NilBytes /\ now >= masterKeyExpiry

\* C15: when ClearCache returns, both cache fields are empty, both expiries
\* are before the present, and every slice that was the cached seed or the
\* cached master key holds zeroes; it returns normally whether or not
\* anything was cached, and on an already cleared provider it changes no
\* field.  Until some unlock writes a cache again, every UnlockMasterKey
\* misses both checks and prompts for the password and then the code.
C15_ClearCacheClears ==
    [][\A t \in Threads :
         /\ Steps(t, "cc_clear")
              => /\ pc'[t] = "idle" /\ result'[t] = "ok"
                 /\ cachedSeed' = NilBytes /\ cachedMasterKey' = NilBytes
                 /\ seedExpiry' < now' /\ masterKeyExpiry' < now'
                 /\ \A u \in Threads :
                      /\ aliased[u].seed => seed'[u] = Zeroed
                      /\ aliased[u].mk => mk'[u] = Zeroed
                 /\ cacheFields = <<NilBytes, ZeroTime, NilBytes, ZeroTime>>
                      => cacheFields' = cacheFields
         /\ (Steps(t, "umk_check") /\ mkAuth = ZeroTime)
              => (pc'[t] = "us_lock" /\ mk'[t] = NilBytes)
         /\ (Steps(t, "us_check") /\ seedAuth = ZeroTime)
              => (pc'[t] = "pw_prompt" /\ prompts'[t] = {"password"})
         /\ (Steps(t, "pw_prompt") /\ pc'[t] = "code_prompt")
              => prompts'[t] = {"password", "code"}]_vars

\* C15 witness: with a seed TTL of 3 s and a master-key TTL of 2 s, a
\* ClearCache that emptied a filled cache has returned within the first
\* second, and a call made since is at the password prompt.
C15_Witness ==
    \E t, u \in Threads :
        /\ config.SeedUnlockTTLSeconds = 3 /\ masterKeyTTL = 2 /\ now <= 1
        /\ pc[u] = "idle" /\ req[u].op = "clear" /\ result[u] = "ok" /\ changedCache[u]
        /\ pc[t] = "pw_prompt" /\ seedAuth = ZeroTime /\ mkAuth = ZeroTime

\* C16: every UnlockMasterKey that returns without error hands its caller
\* the master key derived from the seed at init, HKDF(TheSeed), whichever
\* way the connections and ClearCache interleave.
C16_SameMasterKey ==
    [][\A t \in Threads :
         (pc[t] \in {"umk_hitlog", "mk_write"} /\ pc'[t] = "sign_load")
            => mk'[t] = HKDF(TheSeed)]_vars

\* C17: a recovery code that has verified once is no longer in the stored
\* hash list, so verifying it again fails.
C17_RecoveryCodeSingleUse ==
    \A c \in spent :
        /\ \A i \in DOMAIN recoveryHashes : recoveryHashes[i] # Sha256Hex(c)
        /\ ~VerifyRecoveryCode(c, recoveryHashes)[1]

\* C18: otp.Verify, called at second `at` with period `period`, accepts the
\* code exactly when it is the configured seed's code at counter - 1,
\* counter or counter + 1, where counter = at / period; a code that is the
\* seed's code at counter - 2 or counter + 2 and at none of those three is
\* rejected.
C18_VerifyWindow ==
    totp.code[1] # NilBytes =>
        LET counter == totp.at \div totp.period
            window == {Generate(TheSeed, counter - 1), Generate(TheSeed, counter),
                       Generate(TheSeed, counter + 1)}
        IN /\ totp.accepted <=> totp.code \in window
           /\ (/\ totp.code \in {Generate(TheSeed, counter - 2), Generate(TheSeed, counter + 2)}
               /\ totp.code \notin window)
                => ~totp.accepted

\* C18 witness: at second 3 with period 2 (counter 1) the code of counter 0
\* has been accepted.
C18_Witness ==
    /\ totp.at = 3 /\ totp.period = 2
    /\ totp.code = Generate(TheSeed, 0)
    /\ totp.accepted

\* C19: a request refused for a wrong password and a request refused for a
\* wrong code end with the same error, so the error does not tell which
\* check failed.
C19_FailuresIndistinguishable ==
    \A t, u \in Threads :
        (/\ result[t] \in {"wrong password or damaged config", "code wrong or expired"}
         /\ result[u] \in {"wrong password or damaged config", "code wrong or expired"})
            => result[t] = result[u]

C21_TouchIDTTL ==
    [][(masterKeyTTL > 0 /\ mkAuth # ZeroTime /\ now < mkAuth + masterKeyTTL)
          => touch'.checks = touch.checks]_vars

\* C22 (as stated): an import under an alias that already holds a record is
\* rejected.
C22_ExistingAliasRejected ==
    (imp.outcome # "none" /\ imp.found # "none") => imp.outcome = "rejected"

\* C22 (amended): an import under an alias that holds the record of another
\* key is rejected and changes no record; an import under a free alias, or
\* of the key the alias already holds, writes that alias's record and no
\* other; no command ever changes the fingerprint of a record it keeps.
C22_AliasKeepsItsKey ==
    [][/\ imp' # imp =>
            IF imp'.found \notin {"none", imp'.fp}
            THEN imp'.outcome = "rejected" /\ store' = store
            ELSE /\ imp'.outcome = "imported"
                 /\ store'[imp'.alias].fp = imp'.fp
                 /\ \A a \in Aliases \ {imp'.alias} : store'[a] = store[a]
       /\ \A a \in Aliases :
            (store[a] # NoRecord /\ store'[a] # NoRecord) => store'[a].fp = store[a].fp]_vars

\* C22 witness: an import of f2 under an alias holding f1 has been rejected
\* and the alias still holds f1.
C22_Witness ==
    /\ imp.outcome = "rejected" /\ imp.fp = "f2" /\ imp.found = "f1"
    /\ store[imp.alias].fp = "f1"

\* C23: in OTP secure mode with master-key TTL > 0, while the agent has made
\* no interactive unlock of its own since the startup pre-unlock succeeded
\* and the master-key TTL counted from that pre-unlock has not run out, no
\* request has shown a prompt.
C23_PreUnlockServesFirstSign ==
    (/\ boot.state = "serving" /\ masterKeyTTL > 0
     /\ mkAuth = ZeroTime /\ now < boot.at + masterKeyTTL)
        => \A t \in Threads : prompts[t] = {}

\* C24: SignWithFlags signs an RSA key with rsa-sha2-512 when the SHA-512
\* flag is set, with rsa-sha2-256 when only the SHA-256 flag is set, and
\* with ssh-rsa when neither is; a key of another type is signed with its
\* own algorithm whatever the flags, and the request does not fail.
C24_AlgorithmSelection ==
    sig.fp # "-" =>
        IF sig.keyType = "ssh-rsa"
        THEN sig.algo = (IF FlagRsaSha512 \in sig.flags THEN "rsa-sha2-512"
                         ELSE IF FlagRsaSha256 \in sig.flags THEN "rsa-sha2-256"
                         ELSE "ssh-rsa")
        ELSE sig.algo = sig.keyType

\* C25: an init run without --force in Touch ID mode while the vault holds
\* a master key, or in OTP mode while the OTP config file exists, ends with
\* "already exists" and leaves the vault, the OTP config (seed and recovery
\* hashes) and the saved mode as they were.
C25_InitWithoutForceChangesNothing ==
    [][(/\ ini' # ini /\ ~ini'.force
        /\ \/ ini'.mode = "touchid" /\ vault # NilBytes
           \/ ini'.mode = "otp" /\ otpSeed # NilBytes)
          => /\ ini'.outcome = "exists"
             /\ vault' = vault
             /\ otpSeed' = otpSeed /\ recoveryHashes' = recoveryHashes
             /\ authMode' = authMode]_vars

\* C25 witness: with an OTP config on disk and the mode since switched to
\* Touch ID, an OTP init without --force has ended with "already exists";
\* the mode is still Touch ID.
C25_Witness ==
    /\ ini = [mode |-> "otp", force |-> FALSE, outcome |-> "exists"]
    /\ otpSeed # NilBytes /\ vault # NilBytes /\ authMode = "touchid"

\* C26: a call VerifyRecoveryCode(c, HashRecoveryCodes(cs)) returns
\* (true, i) with i the first (0-based) position of c in cs when c is one
\* of the codes, and (false, -1) when it is not; the hash list is the same
\* after the call.
C26_VerifyFindsFirstIndex ==
    [][rcv' # rcv =>
          LET c == rcv'.code
              at == {i \in 1..Len(shownCodes) : shownCodes[i] = c}
          IN /\ IF at # {}
                THEN /\ rcv'.ok
                     /\ rcv'.index + 1 \in at
                     /\ \A i \in at : rcv'.index + 1 <= i
                ELSE ~rcv'.ok /\ rcv'.index = -1
             /\ recoveryHashes' = recoveryHashes]_vars

\* C26 witness: with the codes k2, k1, k1 generated, k1 has verified at
\* index 1.
C26_Witness ==
    /\ shownCodes = <<"k2", "k1", "k1">>
    /\ rcv = [code |-> "k1", ok |-> TRUE, index |-> 1]

\* C27: between commands, when every init, import and rekey so far has
\* reported success, each stored record opens under the master key the
\* active provider returns, so no listed key fails at decryption.
C27_RecordsOpenUnderProviderKey ==
    (rk.pc \in {"idle", "done"} /\ ProviderAvailable)
        => \A a \in Present(store) : LoadDecryptedRecord(a, ProviderKey) = "ok"

\* C28: while a request is in flight, the seed its UnlockMasterKey holds and
\* the master key it holds are changed by no other goroutine's step: a
\* ClearCache running beside it does not zero them.
C28_HandedOutSecretsKept ==
    [][\A t \in Threads :
         (pc[t] # "idle" /\ pc'[t] = pc[t])
            => /\ seed[t] # NilBytes => seed'[t] = seed[t]
               /\ mk[t] # NilBytes => mk'[t] = mk[t]]_vars

\* C29: whenever no request is in progress, a provider whose seed TTL is 0
\* or below holds no seed in cachedSeed, and one whose master-key TTL is 0
\* or below holds no key in cachedMasterKey.
C29_NoCacheTierHoldsNothing ==
    (\A t \in Threads : pc[t] = "idle")
        => /\ config.SeedUnlockTTLSeconds <= 0 => cachedSeed = NilBytes
           /\ masterKeyTTL <= 0 => cachedMasterKey = NilBytes

\* C30: a cache hit leaves both expiries as they are; a master key is
\* returned from cache only before (time of the unlock that stored it) +
\* master-key TTL, and a seed only before (time of its password unlock) +
\* seed TTL; an expiry changes only in the step that stores the result of
\* an interactive unlock of that tier, or in ClearCache.
C30_ExpiryIsAbsolute ==
    [][\A t \in Threads :
         /\ (Steps(t, "umk_check") /\ pc'[t] = "umk_hitlog")
              => /\ masterKeyExpiry' = masterKeyExpiry /\ seedExpiry' = seedExpiry
                 /\ mkAuth # ZeroTime /\ now < mkAuth + masterKeyTTL
         /\ (Steps(t, "us_check") /\ pc'[t] = "code_prompt")
              => /\ masterKeyExpiry' = masterKeyExpiry /\ seedExpiry' = seedExpiry
                 /\ seedAuth # ZeroTime /\ now < seedAuth + config.SeedUnlockTTLSeconds
         /\ (pc'[t] # pc[t] /\ masterKeyExpiry' # masterKeyExpiry)
              => \/ pc[t] = "cc_clear"
                 \/ pc[t] = "mk_write" /\ "code" \in prompts[t]
         /\ (pc'[t] # pc[t] /\ seedExpiry' # seedExpiry)
              => \/ pc[t] = "cc_clear"
                 \/ pc[t] = "pw_prompt" /\ "password" \in prompts[t]]_vars

\* C30 witness: one request was served from the master-key cache and is
\* about to sign; the clock has since reached the expiry set by the unlock
\* that stored the key, and another request has missed the cache.
C30_Witness ==
    \E t, u \in Threads :
        /\ pc[u] = "sign_load" /\ prompts[u] = {} /\ calledUnlock[u]
        /\ pc[t] = "us_lock"
        /\ mkAuth # ZeroTime /\ masterKeyExpiry = mkAuth + masterKeyTTL
        /\ now >= masterKeyExpiry /\ cachedMasterKey # NilBytes

====
